---- MODULE Spec2Model ----
(***************************************************************************)
(* A model of src/src/tzfile.rs: the tzfile parser TzFile::read, the two   *)
(* lookups timezone_at and total_leap_seconds_at, and the lower-bound      *)
(* search bsearch_no_less they share.                                      *)
(*                                                                         *)
(* A file is a sequence of bytes (0..255) and the Reader is a cursor `pos` *)
(* into it.  A 64-bit instant is kept as its eight big-endian two's        *)
(* complement bytes, so that i64::MIN and the sign extension of 4-byte     *)
(* timestamps are exact; instants are compared as i64 values are.          *)
(***************************************************************************)
EXTENDS Integers, Sequences, FiniteSets, TLC

VARIABLES
    file,             \* the bytes behind the Reader
    pos,              \* number of bytes the Reader has consumed
    pc,               \* the section of TzFile::read that runs next (or ran last)
    result,           \* Running, Ok, a validation error, IoFailure or TaskFailure
    version,          \* local `version` of read
    timewidth,        \* local `timewidth` of read
    counts,           \* the six counts the table builders use (second block)
    ttpoints,         \* local `ttpoints`: the raw transition instants
    ttindices,        \* local `ttindices`
    ttinfos0,         \* local `ttinfos0`: raw (gmtoff, isdst, abbrind)
    charpool,         \* local `charpool`
    ttinfos,          \* local `ttinfos`: the resolved Timezone records
    transitions,      \* TzFile.transitions
    leap_transitions, \* TzFile.leap_transitions
    future_rules,     \* TzFile.future_rules (local `tzrules`)
    query,            \* the last lookup made on the parsed structure
    bs                \* the loop state of bsearch_no_less (base, limit, ...)

vars == <<file, pos, pc, result, version, timewidth, counts, ttpoints, ttindices,
          ttinfos0, charpool, ttinfos, transitions, leap_transitions,
          future_rules, query, bs>>

parseVars == <<file, pos, pc, result, version, timewidth, counts, ttpoints,
               ttindices, ttinfos0, charpool, ttinfos, transitions,
               leap_transitions, future_rules>>

----------------------------------------------------------------------------
(* Bounds of the model.                                                    *)

MaxTime == 2
MaxLeap == 2
MaxCut == 1
MaxLen == 4
MaxKey == 3

----------------------------------------------------------------------------
(* Outcomes of TzFile::read.                                               *)

Running == "running"
Ok == "Ok"
IoFailure == "io failure"            \* a read the Reader could not supply (try!)
TaskFailure == "task failure"        \* index out of bounds / failed assertion

InvalidMagic == "invalid tzfile magic"
InvalidVersion == "invalid tzfile version"
InvalidHeader == "invalid tzfile header"
InvalidPool == "invalid tzfile abbreviation pool"
Unsorted == "unsorted tzfile entires"
MissingTzString == "missing tzfile TZ string"
InvalidTzString == "invalid tzfile TZ string"
InvalidDstFlag == "invalid tzfile dst flag"
InvalidAbbrIndex == "invalid tzfile abbreviation index"

\* invalid_input(desc): the one validation-error kind, InvalidInput
ValidationErrors ==
    {InvalidMagic, InvalidVersion, InvalidHeader, InvalidPool, Unsorted,
     MissingTzString, InvalidTzString, InvalidDstFlag, InvalidAbbrIndex}

Magic == 1415211366      \* 0x545a6966, "TZif"
NewLine == 10            \* b'\n'
VersionTwo == 50         \* b'2'
VersionThree == 51       \* b'3'

----------------------------------------------------------------------------
(* Integers of the file.                                                   *)

\* read_be_u32: exact for values below 2^31 (the first byte below 128)
BeU32(b) == ((b[1] * 256 + b[2]) * 256 + b[3]) * 256 + b[4]

\* read_be_i32
BeI32(b) ==
    ((IF b[1] >= 128 THEN b[1] - 256 ELSE b[1]) * 256 + b[2]) * 65536
        + b[3] * 256 + b[4]

\* read_be_int_n(nbytes): nbytes big-endian bytes, sign-extended to an i64
BeIntN(b) ==
    LET pad == IF b[1] >= 128 THEN 255 ELSE 0
    IN  [i \in 1..(8 - Len(b)) |-> pad] \o b

I64Min == <<128, 0, 0, 0, 0, 0, 0, 0>>
I64Max == <<127, 255, 255, 255, 255, 255, 255, 255>>

\* the order of i64 on the two's complement bytes: the sign bit flipped,
\* then most significant byte first
I64Less(a, b) ==
    LET ka == [a EXCEPT ![1] = (a[1] + 128) % 256]
        kb == [b EXCEPT ![1] = (b[1] + 128) % 256]
    IN  \E i \in 1..8 : /\ ka[i] < kb[i]
                        /\ \A j \in 1..(i - 1) : ka[j] = kb[j]

I64Leq(a, b) == ~I64Less(b, a)

----------------------------------------------------------------------------
(* The Reader.                                                             *)

CanRead(f, p, n) == p + n <= Len(f)
Bytes(f, p, n) == SubSeq(f, p + 1, p + n)


\* the outcome of a section that stops the parse with `r`
Fail(r, p) == [res |-> r, pos |-> p]

\* six read_be_u32 in file order (lines 60-65 and 77-82)
ReadCounts(f, p) ==
    [ttisgmtcnt |-> BeU32(Bytes(f, p, 4)),
     ttisstdcnt |-> BeU32(Bytes(f, p + 4, 4)),
     leapcnt    |-> BeU32(Bytes(f, p + 8, 4)),
     timecnt    |-> BeU32(Bytes(f, p + 12, 4)),
     typecnt    |-> BeU32(Bytes(f, p + 16, 4)),
     charcnt    |-> BeU32(Bytes(f, p + 20, 4))]

NoCounts ==
    [ttisgmtcnt |-> 0, ttisstdcnt |-> 0, leapcnt |-> 0, timecnt |-> 0,
     typecnt |-> 0, charcnt |-> 0]

----------------------------------------------------------------------------
(* String::from_utf8: whether the bytes from index i on are well-formed    *)
(* UTF-8.                                                                  *)

IsCont(b) == b >= 128 /\ b <= 191

RECURSIVE Utf8From(_, _)
Utf8From(b, i) ==
    IF i > Len(b) THEN TRUE
    ELSE LET c == b[i]
             has(n) == i + n <= Len(b)
         IN  IF c < 128 THEN Utf8From(b, i + 1)
             ELSE IF c >= 194 /\ c <= 223
                  THEN has(1) /\ IsCont(b[i + 1]) /\ Utf8From(b, i + 2)
             ELSE IF c >= 224 /\ c <= 239
                  THEN /\ has(2)
                       /\ IsCont(b[i + 1]) /\ IsCont(b[i + 2])
                       /\ (c = 224 => b[i + 1] >= 160)
                       /\ (c = 237 => b[i + 1] <= 159)
                       /\ Utf8From(b, i + 3)
             ELSE IF c >= 240 /\ c <= 244
                  THEN /\ has(3)
                       /\ IsCont(b[i + 1]) /\ IsCont(b[i + 2]) /\ IsCont(b[i + 3])
                       /\ (c = 240 => b[i + 1] >= 144)
                       /\ (c = 244 => b[i + 1] <= 143)
                       /\ Utf8From(b, i + 4)
             ELSE FALSE

Utf8Valid(b) == Utf8From(b, 1)

\* Option<T>
None == <<>>
Some(x) == <<x>>

----------------------------------------------------------------------------
(* TzFile::read, section by section.  Each operator gives the outcome of   *)
(* one section run on file f from cursor p: `res` is Running when the      *)
(* parse goes on, and the error it returns with otherwise.                 *)

\* lines 47-56: magic, version, 15 reserved bytes
HeaderOutcome(f, p) ==
    IF ~CanRead(f, p, 4) THEN Fail(IoFailure, p)
    ELSE IF BeU32(Bytes(f, p, 4)) # Magic THEN Fail(InvalidMagic, p)
    ELSE IF ~CanRead(f, p + 4, 1) THEN Fail(IoFailure, p)
    ELSE LET v == f[p + 5] IN
         IF v \notin {0, VersionTwo, VersionThree} THEN Fail(InvalidVersion, p)
         ELSE IF ~CanRead(f, p + 5, 15) THEN Fail(IoFailure, p)
         ELSE [res |-> Running, pos |-> p + 20, version |-> v,
               timewidth |-> IF v = 0 THEN 4 ELSE 8]

\* line 67
SkipLen(c) ==
    c.timecnt * 5 + c.typecnt * 6 + c.charcnt + c.leapcnt * 8
        + c.ttisgmtcnt + c.ttisstdcnt

\* lines 85-86
SanityFails(c) ==
    \/ c.typecnt = 0
    \/ ~(c.ttisstdcnt = 0 \/ c.ttisstdcnt = c.typecnt)
    \/ ~(c.ttisgmtcnt = 0 \/ c.ttisgmtcnt = c.typecnt)

\* the first block with the sanity check of lines 85-88 applied to it too
FirstBlockOutcomeChecked(f, p, ver) ==
    IF ~CanRead(f, p, 24) THEN Fail(IoFailure, p)
    ELSE IF SanityFails(ReadCounts(f, p)) THEN Fail(InvalidHeader, p)
    ELSE LET skip == SkipLen(ReadCounts(f, p))
             q == p + 24 + skip
         IN  IF ~CanRead(f, p + 24, skip) THEN Fail(IoFailure, p)
             ELSE IF ~CanRead(f, q, 4) THEN Fail(IoFailure, p)
             ELSE IF BeU32(Bytes(f, q, 4)) # Magic THEN Fail(InvalidMagic, p)
             ELSE IF ~CanRead(f, q + 4, 1) THEN Fail(IoFailure, p)
             ELSE IF f[q + 5] # ver THEN Fail(InvalidVersion, p)
             ELSE IF ~CanRead(f, q + 5, 15) THEN Fail(IoFailure, p)
             ELSE [res |-> Running, pos |-> q + 20]

\* lines 59-75: skip the first data block and the second magic
FirstBlockOutcome(f, p, ver) ==
    IF ~CanRead(f, p, 24) THEN Fail(IoFailure, p)
    ELSE LET skip == SkipLen(ReadCounts(f, p))
             q == p + 24 + skip
         IN  IF ~CanRead(f, p + 24, skip) THEN Fail(IoFailure, p)
             ELSE IF ~CanRead(f, q, 4) THEN Fail(IoFailure, p)
             ELSE IF BeU32(Bytes(f, q, 4)) # Magic THEN Fail(InvalidMagic, p)
             ELSE IF ~CanRead(f, q + 4, 1) THEN Fail(IoFailure, p)
             ELSE IF f[q + 5] # ver THEN Fail(InvalidVersion, p)
             ELSE IF ~CanRead(f, q + 5, 15) THEN Fail(IoFailure, p)
             ELSE [res |-> Running, pos |-> q + 20]

\* lines 77-88: the counts the builders use, and the sanity check
CountsOutcome(f, p) ==
    IF ~CanRead(f, p, 24) THEN Fail(IoFailure, p) @@ [counts |-> NoCounts]
    ELSE LET c == ReadCounts(f, p) IN
         IF SanityFails(c) THEN Fail(InvalidHeader, p) @@ [counts |-> c]
         ELSE [res |-> Running, pos |-> p + 24, counts |-> c]

\* lines 96-98
TtpointsOutcome(f, p, w, n) ==
    IF ~CanRead(f, p, n * w) THEN Fail(IoFailure, p)
    ELSE [res |-> Running, pos |-> p + n * w,
          ttpoints |-> [i \in 1..n |-> BeIntN(Bytes(f, p + (i - 1) * w, w))]]

\* lines 99-101
TtindicesOutcome(f, p, n) ==
    IF ~CanRead(f, p, n) THEN Fail(IoFailure, p)
    ELSE [res |-> Running, pos |-> p + n,
          ttindices |-> [i \in 1..n |-> f[p + i]]]

\* the type records with the DST flag checked as each record is read
Ttinfos0OutcomeEager(f, p, n) ==
    IF \E i \in 1..n : /\ CanRead(f, p, (i - 1) * 6 + 5)
                        /\ f[p + (i - 1) * 6 + 5] \notin {0, 1}
    THEN Fail(InvalidDstFlag, p)
    ELSE IF ~CanRead(f, p, n * 6) THEN Fail(IoFailure, p)
    ELSE [res |-> Running, pos |-> p + n * 6,
          ttinfos0 |-> [i \in 1..n |->
              [gmtoff  |-> BeI32(Bytes(f, p + (i - 1) * 6, 4)),
               isdst   |-> f[p + (i - 1) * 6 + 5],
               abbrind |-> f[p + (i - 1) * 6 + 6]]]]

\* lines 102-107
Ttinfos0Outcome(f, p, n) ==
    IF ~CanRead(f, p, n * 6) THEN Fail(IoFailure, p)
    ELSE [res |-> Running, pos |-> p + n * 6,
          ttinfos0 |-> [i \in 1..n |->
              [gmtoff  |-> BeI32(Bytes(f, p + (i - 1) * 6, 4)),
               isdst   |-> f[p + (i - 1) * 6 + 5],
               abbrind |-> f[p + (i - 1) * 6 + 6]]]]

\* lines 108-111
CharpoolOutcome(f, p, n) ==
    IF ~CanRead(f, p, n) THEN Fail(IoFailure, p)
    ELSE IF ~Utf8Valid(Bytes(f, p, n)) THEN Fail(InvalidPool, p)
    ELSE [res |-> Running, pos |-> p + n, charpool |-> Bytes(f, p, n)]


\* the comparison written `since > point`: equal instants pass
OutOfOrderEqualPasses(since, point) == I64Less(point, since)

\* lines 181 and 115: `since >= point`, the pair that is refused
OutOfOrder(since, point) == ~I64Less(since, point)

\* lines 112-119: one iteration per leap entry; `acc` is leap_transitions
RECURSIVE LeapLoop(_, _, _, _, _)
LeapLoop(f, p, w, n, acc) ==
    IF n = 0 THEN [res |-> Running, pos |-> p, leap_transitions |-> acc]
    ELSE IF ~CanRead(f, p, w + 4) THEN Fail(IoFailure, p) @@ [leap_transitions |-> acc]
    ELSE LET leapsince == BeIntN(Bytes(f, p, w))
             leaptotal == BeI32(Bytes(f, p + w, 4))
         IN  IF acc # <<>> /\ OutOfOrder(acc[Len(acc)][1], leapsince)
             THEN Fail(Unsorted, p) @@ [leap_transitions |-> acc]
             ELSE LeapLoop(f, p + w + 4, w, n - 1,
                           Append(acc, <<leapsince, leaptotal>>))

LeapsOutcome(f, p, w, n) == LeapLoop(f, p, w, n, <<>>)

\* lines 134-135: the indicator arrays are read and dropped
IndicatorsOutcome(f, p, c) ==
    IF ~CanRead(f, p, c.ttisstdcnt) THEN Fail(IoFailure, p)
    ELSE IF ~CanRead(f, p + c.ttisstdcnt, c.ttisgmtcnt) THEN Fail(IoFailure, p)
    ELSE [res |-> Running, pos |-> p + c.ttisstdcnt + c.ttisgmtcnt]

\* the test written `version > b'2'`: version '2' loses its TZ string
HasTzStringAboveTwo(ver) == ver > VersionTwo

\* lines 139 and 156-157: which versions carry a TZ string
HasTzString(ver) == ver >= VersionTwo

\* lines 141-147: the bytes before the next newline at or after cursor p
RulesUpTo(f, p, q) == Bytes(f, p, q - p)

\* lines 137-158
TzrulesOutcome(f, p, ver) ==
    IF ~HasTzString(ver) THEN [res |-> Running, pos |-> p, tzrules |-> None]
    ELSE IF ~CanRead(f, p, 1) THEN Fail(IoFailure, p)
    ELSE IF f[p + 1] # NewLine THEN Fail(MissingTzString, p)
    ELSE LET ends == {q \in (p + 1)..(Len(f) - 1) : f[q + 1] = NewLine} IN
         IF ends = {} THEN Fail(IoFailure, p)
         ELSE LET q == CHOOSE e \in ends : \A e2 \in ends : e <= e2
                  rules == RulesUpTo(f, p + 1, q)
              IN  IF rules = <<>>
                  THEN [res |-> Running, pos |-> q + 1, tzrules |-> None]
                  ELSE IF ~Utf8Valid(rules) THEN Fail(InvalidTzString, p)
                  ELSE [res |-> Running, pos |-> q + 1, tzrules |-> Some(rules)]

\* str::is_char_boundary, asserted by slice_from (line 168)
IsCharBoundary(pool, i) == i = Len(pool) \/ ~IsCont(pool[i + 1])

\* lines 162-176: one raw type record resolved against the pool;
\* `zone` is the Timezone pushed when res is Running
ResolveType(info, pool) ==
    IF info.isdst \notin {0, 1} THEN [res |-> InvalidDstFlag]
    ELSE IF ~(info.abbrind < Len(pool)) THEN [res |-> InvalidAbbrIndex]
    ELSE IF ~IsCharBoundary(pool, info.abbrind) THEN [res |-> TaskFailure]
    ELSE LET nuls == {j \in info.abbrind..(Len(pool) - 1) : pool[j + 1] = 0} IN
         IF nuls = {} THEN [res |-> InvalidAbbrIndex]
         ELSE LET idx == CHOOSE j \in nuls : \A j2 \in nuls : j <= j2 IN
              [res |-> Running,
               zone |-> [local_minus_utc |-> info.gmtoff,
                         dst |-> (info.isdst = 1),
                         name |-> Bytes(pool, info.abbrind, idx - info.abbrind)]]

\* lines 160-177
RECURSIVE TtinfosLoop(_, _, _, _)
TtinfosLoop(infos0, pool, i, acc) ==
    IF i > Len(infos0) THEN [res |-> Running, ttinfos |-> acc]
    ELSE LET r == ResolveType(infos0[i], pool) IN
         IF r.res # Running THEN [res |-> r.res, ttinfos |-> acc]
         ELSE TtinfosLoop(infos0, pool, i + 1, Append(acc, r.zone))

TtinfosOutcome(infos0, pool) == TtinfosLoop(infos0, pool, 1, <<>>)

\* line 179: the instant of the first entry of the transition table
Sentinel == I64Min

\* lines 180-185: (ttpoint, ttindex) pairs pushed in file order
RECURSIVE TransitionsLoop(_, _, _, _, _)
TransitionsLoop(points, indices, infos, i, acc) ==
    IF i > Len(points) THEN [res |-> Ok, transitions |-> acc]
    ELSE IF acc # <<>> /\ OutOfOrder(acc[Len(acc)][1], points[i])
         THEN [res |-> Unsorted, transitions |-> acc]
    ELSE IF ~(indices[i] < Len(infos))
         THEN [res |-> TaskFailure, transitions |-> acc]
    ELSE TransitionsLoop(points, indices, infos, i + 1,
                         Append(acc, <<points[i], infos[indices[i] + 1]>>))

\* lines 179-188
TransitionsOutcome(points, indices, infos) ==
    IF infos = <<>> THEN [res |-> TaskFailure, transitions |-> <<>>]
    ELSE TransitionsLoop(points, indices, infos, 1, <<<<Sentinel, infos[1]>>>>)


----------------------------------------------------------------------------
(* bsearch_no_less (lines 31-43).  The closure f is only asked whether     *)
(* f(&v[ix]) == Less, so the search runs on `less`, the sequence of those  *)
(* verdicts: less[i + 1] is f(&v[i]) == Less.  The loop state is (base,    *)
(* limit); `fault` records an index v[ix] outside the slice.               *)

BsearchStart(less) == [base |-> 0, limit |-> Len(less), fault |-> FALSE]

\* the loop without `limit -= 1` on the branch that moves base
BsearchStepKeepsLimit(less, s) ==
    LET ix == s.base + (s.limit \div 2) IN
    IF ~(ix < Len(less)) THEN [s EXCEPT !.fault = TRUE]
    ELSE IF less[ix + 1]
         THEN [s EXCEPT !.base = ix + 1, !.limit = s.limit \div 2]
         ELSE [s EXCEPT !.limit = s.limit \div 2]

\* lines 35-40: one iteration of the loop, taken when limit != 0
BsearchStep(less, s) ==
    LET ix == s.base + (s.limit \div 2) IN
    IF ~(ix < Len(less)) THEN [s EXCEPT !.fault = TRUE]
    ELSE IF less[ix + 1]
         THEN [s EXCEPT !.base = ix + 1, !.limit = (s.limit - 1) \div 2]
         ELSE [s EXCEPT !.limit = s.limit \div 2]

\* lines 34-42: the loop run to its end
RECURSIVE BsearchRun(_, _)
BsearchRun(less, s) ==
    IF s.limit = 0 \/ s.fault THEN s ELSE BsearchRun(less, BsearchStep(less, s))

bsearch_no_less(less) == BsearchRun(less, BsearchStart(less))

\* lines 201 and 208: the closure |&(since, _)| since.cmp(&at)
SinceLess(table, at) == [i \in 1..Len(table) |-> I64Less(table[i][1], at)]

\* lines 199-204
timezone_at(table, at) ==
    LET s == bsearch_no_less(SinceLess(table, at))
        next == s.base
    IN  IF s.fault \/ ~(next > 0)
        THEN [failed |-> TRUE, value |-> None]
        ELSE [failed |-> FALSE, value |-> Some(table[next][2])]

\* lines 206-214
total_leap_seconds_at(table, at) ==
    LET s == bsearch_no_less(SinceLess(table, at))
        next == s.base
    IN  IF s.fault THEN [failed |-> TRUE, value |-> None]
        ELSE IF next > 0 THEN [failed |-> FALSE, value |-> Some(table[next][2])]
        ELSE [failed |-> FALSE, value |-> Some(0)]


----------------------------------------------------------------------------
(* The files the parser is run on: byte sequences laid out as tzfiles,     *)
(* well-formed or broken in one or several places, whole or cut short.     *)

Zeros(n) == [i \in 1..n |-> 0]
Prefix(f, n) == SubSeq(f, 1, n)
U32Bytes(n) == <<0, 0, 0, n>>
SeqsUpTo(S, n) == UNION {[1..k -> S] : k \in 0..n}

RECURSIVE Flatten(_)
Flatten(ss) == IF ss = <<>> THEN <<>> ELSE Head(ss) \o Flatten(Tail(ss))

TimeCodes == {"min", "neg", "zero", "one"}

\* a timestamp of w bytes: the least one, -1, 0 or 1
TimeBytes(code, w) ==
    CASE code = "min"  -> <<128>> \o Zeros(w - 1)
      [] code = "neg"  -> [i \in 1..w |-> 255]
      [] code = "zero" -> Zeros(w)
      [] code = "one"  -> Zeros(w - 1) \o <<1>>

HeaderBytes(last, ver) == <<84, 90, 105, last, ver>> \o Zeros(15)

CountsBytes(c) ==
    U32Bytes(c.ttisgmtcnt) \o U32Bytes(c.ttisstdcnt) \o U32Bytes(c.leapcnt)
        \o U32Bytes(c.timecnt) \o U32Bytes(c.typecnt) \o U32Bytes(c.charcnt)

\* type record i: gmtoff 3600 for the first, -3600 for the others
TypeBytes(t, i) ==
    (IF i = 1 THEN <<0, 0, 14, 16>> ELSE <<255, 255, 241, 240>>) \o <<t.dst, t.abbr>>

\* a first (32-bit) data block of the lengths its counts announce
FirstData(c) ==
    Zeros(c.timecnt * 4) \o Zeros(c.timecnt) \o Zeros(c.typecnt * 6)
        \o Zeros(c.charcnt) \o Zeros(c.leapcnt * 8)
        \o Zeros(c.ttisstdcnt) \o Zeros(c.ttisgmtcnt)

FileOf(p) ==
    LET ext == p.ver \in {VersionTwo, VersionThree}
        w == IF ext THEN 8 ELSE 4
        c == [ttisgmtcnt |-> p.ngmt, ttisstdcnt |-> p.nstd,
              leapcnt |-> Len(p.leaps), timecnt |-> Len(p.times),
              typecnt |-> Len(p.types), charcnt |-> Len(p.pool)]
        first == IF ext
                 THEN CountsBytes(p.first) \o FirstData(p.first)
                          \o HeaderBytes(p.magic2, p.ver2)
                 ELSE <<>>
        data == Flatten([i \in 1..Len(p.times) |-> TimeBytes(p.times[i], w)])
                    \o p.idxs
                    \o Flatten([i \in 1..Len(p.types) |-> TypeBytes(p.types[i], i)])
                    \o p.pool
                    \o Flatten([i \in 1..Len(p.leaps) |->
                                   TimeBytes(p.leaps[i], w) \o U32Bytes(i)])
                    \o Zeros(p.nstd) \o Zeros(p.ngmt)
    IN  HeaderBytes(p.magic, p.ver) \o first \o CountsBytes(c) \o data \o p.tail

ValidFirst ==
    [ttisgmtcnt |-> 0, ttisstdcnt |-> 0, leapcnt |-> 0, timecnt |-> 0,
     typecnt |-> 1, charcnt |-> 0]

\* counts of a first block: well-formed ones, and ones the sanity check of
\* lines 85-86 would refuse
FirstBlocks ==
    {ValidFirst,
     [ValidFirst EXCEPT !.typecnt = 0],
     [ValidFirst EXCEPT !.ttisstdcnt = 2],
     [ValidFirst EXCEPT !.ttisgmtcnt = 2],
     [ttisgmtcnt |-> 1, ttisstdcnt |-> 1, leapcnt |-> 1, timecnt |-> 1,
      typecnt |-> 1, charcnt |-> 2]}

Versions == {0, VersionTwo, VersionThree}

Base(ver) ==
    [magic |-> 102, ver |-> ver, first |-> ValidFirst, magic2 |-> 102,
     ver2 |-> ver, times |-> <<>>, idxs |-> <<>>,
     types |-> <<[dst |-> 0, abbr |-> 0]>>, pool |-> <<65, 0>>,
     leaps |-> <<>>, nstd |-> 0, ngmt |-> 0,
     tail |-> IF ver = 0 THEN <<>> ELSE <<NewLine, 65, NewLine>>]

TwoTypes == <<[dst |-> 0, abbr |-> 0], [dst |-> 1, abbr |-> 2]>>

\* transition tables of every order, over two zones
TimeFiles ==
    {[Base(ver) EXCEPT !.times = ts, !.idxs = Prefix(ix, Len(ts)),
                       !.types = TwoTypes,
                       !.pool = <<65, 0, 66, 0>>] :
        ver \in {0, VersionTwo},
        ts \in SeqsUpTo(TimeCodes, MaxTime),
        ix \in [1..MaxTime -> {0, 1}]}

\* leap tables of every order
LeapFiles ==
    {[Base(ver) EXCEPT !.leaps = ls, !.times = ts, !.idxs = Zeros(Len(ts))] :
        ver \in {0, VersionTwo},
        ls \in SeqsUpTo(TimeCodes, MaxLeap),
        ts \in {<<>>, <<"zero", "one">>}}

\* headers: magic, version, first block, second header, second counts
HeaderFiles ==
    {[Base(ver) EXCEPT !.magic = m, !.first = fb, !.magic2 = m2, !.ver2 = v2,
                       !.types = ty, !.nstd = ns, !.ngmt = ng] :
        ver \in Versions \cup {1}, m \in {102, 103}, fb \in FirstBlocks,
        m2 \in {102, 103}, v2 \in {VersionTwo, VersionThree},
        ty \in {<<>>, <<[dst |-> 0, abbr |-> 0]>>},
        ns \in {0, 1, 2}, ng \in {0, 1, 2}}

\* the data sections, each well-formed or not, and the end of the file
SectionFiles ==
    {[Base(ver) EXCEPT !.times = tx[1], !.idxs = tx[2], !.types = ty,
                       !.pool = pl, !.leaps = ls, !.nstd = ind[1] * Len(ty),
                       !.ngmt = ind[1] * Len(ty) + ind[2], !.tail = tl] :
        ver \in {0, VersionTwo},
        tx \in {<<<<>>, <<>>>>, <<<<"one", "zero">>, <<0, 0>>>>,
                <<<<"zero">>, <<1>>>>},
        ty \in {<<[dst |-> 0, abbr |-> 0]>>, <<[dst |-> 2, abbr |-> 0]>>,
                <<[dst |-> 0, abbr |-> 1]>>, <<[dst |-> 0, abbr |-> 5]>>,
                <<[dst |-> 1, abbr |-> 0], [dst |-> 2, abbr |-> 0]>>,
                <<[dst |-> 0, abbr |-> 5], [dst |-> 2, abbr |-> 0]>>,
                TwoTypes},
        pl \in {<<65, 0>>, <<65>>, <<255, 0>>, <<65, 0, 66, 0>>},
        ls \in {<<>>, <<"one", "zero">>},
        ind \in {<<0, 0>>, <<1, 0>>, <<1, 1>>},
        tl \in {<<>>, <<NewLine, NewLine>>, <<NewLine, 65, NewLine>>,
                <<65, NewLine>>, <<NewLine, 195, NewLine>>, <<NewLine, 65>>}}

\* whole files with every section present, cut at every length
WholeFiles ==
    {[Base(ver) EXCEPT !.first = fb, !.times = <<"zero">>, !.idxs = <<0>>,
                       !.leaps = <<"one">>, !.nstd = 1, !.ngmt = 1] :
        ver \in {0, VersionThree},
        fb \in {f \in FirstBlocks : f.leapcnt = 1}}

\* the instants the lookups are asked about
AtValues ==
    {I64Min, BeIntN(<<128, 0, 0, 0>>), BeIntN(<<255, 255, 255, 255>>),
     BeIntN(<<0, 0, 0, 0>>), BeIntN(<<0, 0, 0, 1>>), BeIntN(<<0, 0, 0, 2>>),
     I64Max}

NoQuery == [op |-> "none"]
NoSearch == [v |-> <<>>, target |-> 0, less |-> <<>>, base |-> 0, limit |-> 0,
             fault |-> FALSE, returned |-> FALSE]

----------------------------------------------------------------------------
(* The parser as a state machine.                                          *)

InitLocals ==
    /\ pos = 0
    /\ result = Running
    /\ version = 0
    /\ timewidth = 0
    /\ counts = NoCounts
    /\ ttpoints = <<>>
    /\ ttindices = <<>>
    /\ ttinfos0 = <<>>
    /\ charpool = <<>>
    /\ ttinfos = <<>>
    /\ transitions = <<>>
    /\ leap_transitions = <<>>
    /\ future_rules = None
    /\ query = NoQuery

InputFiles ==
    {FileOf(p) : p \in TimeFiles \cup LeapFiles \cup HeaderFiles}
        \cup {Prefix(FileOf(p), Len(FileOf(p)) - cut) :
                 p \in SectionFiles, cut \in 0..MaxCut}
        \cup UNION {{Prefix(FileOf(p), n) : n \in 0..Len(FileOf(p))} :
                       p \in WholeFiles}

Init ==
    /\ file \in InputFiles
    /\ pc = "header"
    /\ InitLocals
    /\ bs = NoSearch


\* result, pos and pc after a section with outcome o: on to section `next`,
\* or returned from read with o.res
Advance(o, next) ==
    /\ result' = o.res
    /\ pos' = IF o.res = Running THEN o.pos ELSE pos
    /\ pc' = IF o.res = Running THEN next ELSE pc

ReadHeader ==
    /\ pc = "header" /\ result = Running
    /\ LET o == HeaderOutcome(file, pos) IN
         /\ Advance(o, IF o.res = Running /\ o.timewidth = 8
                       THEN "first_block" ELSE "counts")
         /\ version' = IF o.res = Running THEN o.version ELSE version
         /\ timewidth' = IF o.res = Running THEN o.timewidth ELSE timewidth
    /\ UNCHANGED <<file, counts, ttpoints, ttindices, ttinfos0, charpool, ttinfos,
                   transitions, leap_transitions, future_rules, query, bs>>

SkipFirstBlock ==
    /\ pc = "first_block" /\ result = Running
    /\ Advance(FirstBlockOutcome(file, pos, version), "counts")
    /\ UNCHANGED <<file, version, timewidth, counts, ttpoints, ttindices, ttinfos0,
                   charpool, ttinfos, transitions, leap_transitions,
                   future_rules, query, bs>>

ReadCountsBlock ==
    /\ pc = "counts" /\ result = Running
    /\ LET o == CountsOutcome(file, pos) IN
         /\ Advance(o, "ttpoints")
         /\ counts' = o.counts
    /\ UNCHANGED <<file, version, timewidth, ttpoints, ttindices, ttinfos0,
                   charpool, ttinfos, transitions, leap_transitions,
                   future_rules, query, bs>>

ReadTtpoints ==
    /\ pc = "ttpoints" /\ result = Running
    /\ LET o == TtpointsOutcome(file, pos, timewidth, counts.timecnt) IN
         /\ Advance(o, "ttindices")
         /\ ttpoints' = IF o.res = Running THEN o.ttpoints ELSE ttpoints
    /\ UNCHANGED <<file, version, timewidth, counts, ttindices, ttinfos0,
                   charpool, ttinfos, transitions, leap_transitions,
                   future_rules, query, bs>>

ReadTtindices ==
    /\ pc = "ttindices" /\ result = Running
    /\ LET o == TtindicesOutcome(file, pos, counts.timecnt) IN
         /\ Advance(o, "ttinfos0")
         /\ ttindices' = IF o.res = Running THEN o.ttindices ELSE ttindices
    /\ UNCHANGED <<file, version, timewidth, counts, ttpoints, ttinfos0,
                   charpool, ttinfos, transitions, leap_transitions,
                   future_rules, query, bs>>

ReadTtinfos0 ==
    /\ pc = "ttinfos0" /\ result = Running
    /\ LET o == Ttinfos0Outcome(file, pos, counts.typecnt) IN
         /\ Advance(o, "charpool")
         /\ ttinfos0' = IF o.res = Running THEN o.ttinfos0 ELSE ttinfos0
    /\ UNCHANGED <<file, version, timewidth, counts, ttpoints, ttindices,
                   charpool, ttinfos, transitions, leap_transitions,
                   future_rules, query, bs>>

ReadCharpool ==
    /\ pc = "charpool" /\ result = Running
    /\ LET o == CharpoolOutcome(file, pos, counts.charcnt) IN
         /\ Advance(o, "leaps")
         /\ charpool' = IF o.res = Running THEN o.charpool ELSE charpool
    /\ UNCHANGED <<file, version, timewidth, counts, ttpoints, ttindices,
                   ttinfos0, ttinfos, transitions, leap_transitions,
                   future_rules, query, bs>>

ReadLeaps ==
    /\ pc = "leaps" /\ result = Running
    /\ LET o == LeapsOutcome(file, pos, timewidth, counts.leapcnt) IN
         /\ Advance(o, "indicators")
         /\ leap_transitions' = o.leap_transitions
    /\ UNCHANGED <<file, version, timewidth, counts, ttpoints, ttindices,
                   ttinfos0, charpool, ttinfos, transitions, future_rules,
                   query, bs>>

SkipIndicators ==
    /\ pc = "indicators" /\ result = Running
    /\ Advance(IndicatorsOutcome(file, pos, counts), "tzrules")
    /\ UNCHANGED <<file, version, timewidth, counts, ttpoints, ttindices,
                   ttinfos0, charpool, ttinfos, transitions, leap_transitions,
                   future_rules, query, bs>>

ReadTzrules ==
    /\ pc = "tzrules" /\ result = Running
    /\ LET o == TzrulesOutcome(file, pos, version) IN
         /\ Advance(o, "ttinfos")
         /\ future_rules' = IF o.res = Running THEN o.tzrules ELSE future_rules
    /\ UNCHANGED <<file, version, timewidth, counts, ttpoints, ttindices,
                   ttinfos0, charpool, ttinfos, transitions, leap_transitions,
                   query, bs>>

ResolveTtinfos ==
    /\ pc = "ttinfos" /\ result = Running
    /\ LET o == TtinfosOutcome(ttinfos0, charpool) IN
         /\ Advance([res |-> o.res, pos |-> pos], "transitions")
         /\ ttinfos' = o.ttinfos
    /\ UNCHANGED <<file, version, timewidth, counts, ttpoints, ttindices,
                   ttinfos0, charpool, transitions, leap_transitions,
                   future_rules, query, bs>>

\* lines 179-188: the last section; it ends the parse either way
BuildTransitions ==
    /\ pc = "transitions" /\ result = Running
    /\ LET o == TransitionsOutcome(ttpoints, ttindices, ttinfos) IN
         /\ result' = o.res
         /\ transitions' = o.transitions
    /\ UNCHANGED <<file, pos, pc, version, timewidth, counts, ttpoints,
                   ttindices, ttinfos0, charpool, ttinfos, leap_transitions,
                   future_rules, query, bs>>

\* timezone_at on the structure read returned
TimezoneAt ==
    /\ result = Ok
    /\ \E at \in AtValues :
         query' = [op |-> "timezone_at", at |-> at,
                   out |-> timezone_at(transitions, at)]
    /\ UNCHANGED <<parseVars, bs>>

\* total_leap_seconds_at on the structure read returned
TotalLeapSecondsAt ==
    /\ result = Ok
    /\ \E at \in AtValues :
         query' = [op |-> "total_leap_seconds_at", at |-> at,
                   out |-> total_leap_seconds_at(leap_transitions, at)]
    /\ UNCHANGED <<parseVars, bs>>

Next ==
    \/ ReadHeader
    \/ SkipFirstBlock
    \/ ReadCountsBlock
    \/ ReadTtpoints
    \/ ReadTtindices
    \/ ReadTtinfos0
    \/ ReadCharpool
    \/ ReadLeaps
    \/ SkipIndicators
    \/ ReadTzrules
    \/ ResolveTtinfos
    \/ BuildTransitions
    \/ TimezoneAt
    \/ TotalLeapSecondsAt

Spec == Init /\ [][Next]_vars

----------------------------------------------------------------------------
(* bsearch_no_less on its own: every sorted slice of keys 0..MaxKey of     *)
(* length up to MaxLen, every target, the closure |x| x.cmp(&target).      *)

SortedSeqs ==
    {v \in SeqsUpTo(0..MaxKey, MaxLen) :
        \A i \in 1..(Len(v) - 1) : v[i] <= v[i + 1]}

KeyLess(v, target) == [i \in 1..Len(v) |-> v[i] < target]

InitSearch ==
    /\ file = <<>>
    /\ pc = "search"
    /\ InitLocals
    /\ \E v \in SortedSeqs, target \in 0..(MaxKey + 1) :
         bs = [v |-> v, target |-> target, less |-> KeyLess(v, target)]
                  @@ BsearchStart(KeyLess(v, target))
                  @@ [returned |-> FALSE]

\* lines 34-41: one iteration
SearchStep ==
    /\ pc = "search"
    /\ bs.limit # 0 /\ ~bs.fault /\ ~bs.returned
    /\ bs' = BsearchStep(bs.less, bs)
    /\ UNCHANGED <<parseVars, query>>

\* line 42
SearchReturn ==
    /\ pc = "search"
    /\ bs.limit = 0 /\ ~bs.fault /\ ~bs.returned
    /\ bs' = [bs EXCEPT !.returned = TRUE]
    /\ UNCHANGED <<parseVars, query>>

NextSearch == SearchStep \/ SearchReturn

\* the loop is sequential code: it keeps running until it returns
SpecSearch == InitSearch /\ [][NextSearch]_vars /\ WF_vars(NextSearch)


----------------------------------------------------------------------------
(* The properties.  What they say of a file is read from the bytes of the  *)
(* file by its layout (header, counts, data block, rule string), not from  *)
(* the parser's locals.                                                    *)

Done == result # Running

\* the parse got as far as section s (it ended there or later)
Sections ==
    <<"header", "first_block", "counts", "ttpoints", "ttindices", "ttinfos0",
      "charpool", "leaps", "indicators", "tzrules", "ttinfos", "transitions">>
SectionNo(s) == CHOOSE i \in 1..Len(Sections) : Sections[i] = s
Reached(s) == pc # "search" /\ SectionNo(pc) >= SectionNo(s)

FileExtended == Len(file) >= 5 /\ file[5] \in {VersionTwo, VersionThree}
FileWidth == IF FileExtended THEN 8 ELSE 4
FirstCounts == ReadCounts(file, 20)
\* where the header in front of the counts in use starts
SecondAt ==
    IF FileExtended
    THEN 44 + FirstCounts.timecnt * 4 + FirstCounts.timecnt
            + FirstCounts.typecnt * 6 + FirstCounts.charcnt
            + FirstCounts.leapcnt * 8 + FirstCounts.ttisstdcnt
            + FirstCounts.ttisgmtcnt
    ELSE 0
DataCounts == ReadCounts(file, SecondAt + 20)
TimesAt == SecondAt + 44
TypesAt == TimesAt + DataCounts.timecnt * FileWidth + DataCounts.timecnt
PoolAt == TypesAt + DataCounts.typecnt * 6
LeapsAt == PoolAt + DataCounts.charcnt
RulesAt ==
    LeapsAt + DataCounts.leapcnt * (FileWidth + 4) + DataCounts.ttisstdcnt
        + DataCounts.ttisgmtcnt

\* the instant of leap entry i of the file
FileLeapSince(i) == BeIntN(Bytes(file, LeapsAt + (i - 1) * (FileWidth + 4), FileWidth))
\* leap entries 1..i lie within the file
FileHasLeaps(i) == CanRead(file, LeapsAt, i * (FileWidth + 4))

Instants(table) == [i \in 1..Len(table) |-> table[i][1]]
StrictlyIncreasing(ins) == \A i \in 1..(Len(ins) - 1) : I64Less(ins[i], ins[i + 1])

\* the last entry of the table with instant <= at; 0 when there is none
FloorIndex(table, at) ==
    LET S == {i \in 1..Len(table) : I64Leq(table[i][1], at)}
    IN  IF S = {} THEN 0 ELSE CHOOSE i \in S : \A j \in S : j <= i

\* C1: timezone_at(t) returns the zone of the latest transition whose
\* instant is at or before t, also when t is the instant of a transition.
C1_TimezoneAtFloor ==
    (query.op = "timezone_at" /\ ~query.out.failed)
        => LET k == FloorIndex(transitions, query.at)
           IN  k > 0 /\ query.out.value = Some(transitions[k][2])

\* C2: for every instant t, the least one included, the index timezone_at
\* computes is >= 1: its assertion holds and it returns a zone record.
C2_TimezoneAtNeverFails ==
    query.op = "timezone_at" => ~query.out.failed

\* C3: total_leap_seconds_at(t) is 0 when no leap entry has instant <= t,
\* and the total of the latest entry with instant <= t otherwise.
C3_LeapSecondsFloor ==
    query.op = "total_leap_seconds_at"
        => LET k == FloorIndex(leap_transitions, query.at)
           IN  /\ ~query.out.failed
               /\ query.out.value =
                      Some(IF k = 0 THEN 0 ELSE leap_transitions[k][2])

\* C4: read ends with a parsed structure, a validation error or a
\* propagated I/O failure, and in no other way.
C4_ReadReturns ==
    result \in {Running, Ok, IoFailure} \cup ValidationErrors

\* the first adjacent pair of transition instants of the file that is equal
\* or decreasing (0: none)
FirstBadPair(points) ==
    LET S == {i \in 2..Len(points) : ~I64Less(points[i - 1], points[i])}
    IN  IF S = {} THEN 0 ELSE CHOOSE i \in S : \A j \in S : i <= j

\* C5: a returned structure has a non-empty transition table that starts at
\* the least instant and is strictly increasing, and a strictly increasing
\* leap table; a file with an equal or decreasing adjacent pair of
\* transition or leap instants is never returned as a structure, and the
\* parse that comes to push the second instant of such a pair fails with
\* the ordering error.
C5_TimelineInvariant ==
    /\ result = Ok =>
          /\ Len(transitions) >= 1
          /\ transitions[1][1] = I64Min
          /\ StrictlyIncreasing(Instants(transitions))
          /\ StrictlyIncreasing(Instants(leap_transitions))
          /\ Instants(transitions) = <<I64Min>> \o ttpoints
    /\ (Done /\ Reached("transitions") /\ FirstBadPair(ttpoints) # 0) =>
          /\ result # Ok
          /\ (\A j \in 1..(FirstBadPair(ttpoints) - 1) :
                  ttindices[j] < Len(ttinfos)) => result = Unsorted
    /\ \A i \in 2..MaxLeap + 1 :
          (/\ Done /\ Reached("leaps") /\ i <= DataCounts.leapcnt
           /\ FileHasLeaps(i)
           /\ ~I64Less(FileLeapSince(i - 1), FileLeapSince(i)))
              => result = Unsorted /\ pc = "leaps"

C5_Witness ==
    /\ result = Ok
    /\ Len(transitions) = 3
    /\ Len(leap_transitions) = 2

\* first index whose key is >= target, by a scan from the left (0-based);
\* the length when there is none
LinearScan(v, target) ==
    LET S == {i \in 0..(Len(v) - 1) : v[i + 1] >= target}
    IN  IF S = {} THEN Len(v) ELSE CHOOSE i \in S : \A j \in S : i <= j

\* C6: on every sorted slice and target bsearch_no_less terminates, indexes
\* only inside the slice, and returns what the linear scan returns.
C6_BsearchMatchesScan ==
    /\ [](~bs.fault /\ (bs.returned => bs.base = LinearScan(bs.v, bs.target)))
    /\ <>(bs.returned)

C6_Witness ==
    /\ bs.returned
    /\ Len(bs.v) >= 3
    /\ bs.base > 0 /\ bs.base < Len(bs.v)

\* C7: the comparison with the sentinel never refuses the first transition
\* of the file: a file whose transition instants are strictly increasing
\* does not fail with the ordering error at the transition table.
C7_SentinelNeverRefuses ==
    (Done /\ pc = "transitions" /\ ttpoints # <<>> /\ StrictlyIncreasing(ttpoints))
        => result # Unsorted


\* the first count block of an extended file fails the sanity check
FirstBlockInsane == FileExtended /\ CanRead(file, 20, 24) /\ SanityFails(FirstCounts)

\* C8: in an extended file the sanity check is applied to the first count
\* block too: a first block that fails it makes the parse fail with the
\* header error even when the second count block is valid.
C8_FirstBlockChecked ==
    (Done /\ FirstBlockInsane /\ Reached("ttpoints")) => result = InvalidHeader

\* C8 as amended: the sanity check is applied to the counts in use (the
\* second block of an extended file) and to nothing else: the parse fails
\* with the header error exactly when it reads counts that fail the check,
\* and a first block that fails it is skipped like any other.
C8_OnlyCountsInUseChecked ==
    /\ result = InvalidHeader <=>
          (Done /\ pc = "counts" /\ CanRead(file, SecondAt + 20, 24)
                /\ SanityFails(DataCounts))
    /\ (Done /\ FirstBlockInsane /\ Reached("ttpoints")) => result # InvalidHeader
    /\ Reached("ttpoints") => counts = DataCounts /\ ~SanityFails(counts)

C8_Witness == result = Ok /\ FirstBlockInsane

\* type record i of the file
FileTypeFlag(i) == file[TypesAt + (i - 1) * 6 + 5]
FileTypeAbbr(i) == file[TypesAt + (i - 1) * 6 + 6]
FilePool == Bytes(file, PoolAt, DataCounts.charcnt)
\* the abbreviation index of type record i lies in the pool of the file,
\* with a NUL at or after it
FileTypeResolves(i) ==
    /\ CanRead(file, PoolAt, DataCounts.charcnt)
    /\ FileTypeAbbr(i) < DataCounts.charcnt
    /\ \E j \in (FileTypeAbbr(i) + 1)..DataCounts.charcnt : FilePool[j] = 0
\* the first type record whose DST flag is neither 0 nor 1 (0: none)
FirstBadFlag ==
    LET S == {i \in 1..DataCounts.typecnt : FileTypeFlag(i) \notin {0, 1}}
    IN  IF S = {} THEN 0 ELSE CHOOSE i \in S : \A j \in S : i <= j
\* nothing the file holds before that flag is a violation
NothingBadBefore ==
    /\ StrictlyIncreasing(<<I64Min>> \o ttpoints)
    /\ \A j \in 1..Len(ttindices) : ttindices[j] < DataCounts.typecnt
    /\ \A j \in 1..(FirstBadFlag - 1) : FileTypeResolves(j)

\* C9: the parse fails with the error of the violation that comes first in
\* the file: a type record with a DST flag other than 0 and 1 makes it fail
\* with the flag error, whatever the state of the sections after the type
\* records.
C9_FailFastInFileOrder ==
    (Done /\ Reached("charpool") /\ FirstBadFlag # 0 /\ NothingBadBefore)
        => result = InvalidDstFlag

\* C9 as amended: the parse fails with the error of the check that fails
\* first in the order the parser makes its checks.  The DST flags are
\* checked after the abbreviation pool, the leap entries, the indicator
\* arrays and the rule string have been read: a bad flag gives the flag
\* error when those sections are read without a failure, and the failure
\* of the first of them that fails otherwise.
C9_FailFastInCheckOrder ==
    /\ result = InvalidDstFlag => pc = "ttinfos" /\ FirstBadFlag # 0
    /\ (/\ Done /\ Reached("ttinfos") /\ FirstBadFlag # 0
        /\ \A j \in 1..(FirstBadFlag - 1) : FileTypeResolves(j))
           => result = InvalidDstFlag
    /\ (Done /\ Reached("charpool") /\ ~Reached("ttinfos") /\ FirstBadFlag # 0)
           => \/ pc = "charpool" /\ result \in {IoFailure, InvalidPool}
              \/ pc = "leaps" /\ result \in {IoFailure, Unsorted}
              \/ pc = "indicators" /\ result = IoFailure
              \/ pc = "tzrules"
                   /\ result \in {IoFailure, MissingTzString, InvalidTzString}

C9_Witness ==
    /\ Reached("charpool") /\ FirstBadFlag # 0 /\ NothingBadBefore
    /\ result = InvalidPool

\* the next newline of the file at or after offset p (0-based); Len(file)
\* when there is none
NextNewline(p) ==
    LET S == {q \in p..(Len(file) - 1) : file[q + 1] = NewLine}
    IN  IF S = {} THEN Len(file) ELSE CHOOSE q \in S : \A r \in S : q <= r

\* C10: future_rules() is absent for every parsed legacy file; an extended
\* file whose parse comes to the rule string fails with the missing-rule
\* error unless the byte after the indicator arrays is a newline, and is
\* never parsed otherwise; on success future_rules() is absent exactly when
\* no byte lies between that newline and the next one, and is the bytes
\* between the two otherwise.
C10_FutureRules ==
    /\ (result = Ok /\ ~FileExtended) => future_rules = None
    /\ (result = Ok /\ FileExtended) =>
          /\ file[RulesAt + 1] = NewLine
          /\ LET q == NextNewline(RulesAt + 1) IN
                /\ q < Len(file)
                /\ future_rules = None <=> q = RulesAt + 1
                /\ q > RulesAt + 1 =>
                      future_rules = Some(SubSeq(file, RulesAt + 2, q))
    /\ (Done /\ FileExtended /\ Reached("tzrules") /\ CanRead(file, RulesAt, 1)
             /\ file[RulesAt + 1] # NewLine)
          => result = MissingTzString
    /\ result = MissingTzString =>
          FileExtended /\ pc = "tzrules" /\ file[RulesAt + 1] # NewLine

C10_Witness ==
    /\ result = Ok /\ FileExtended
    /\ future_rules = Some(<<65>>)

====
